---- MODULE Spec2Model ----
(***************************************************************************)
(* tube-cache: the download queue (app/queue.py), the catalog              *)
(* (app/database.py, app/models.py), the request handler (app/api.py) and  *)
(* the storage manager (app/storage.py) as one state machine.              *)
(*                                                                         *)
(* Everything runs on one asyncio event loop, so a coroutine is atomic     *)
(* between two suspension points.  asyncio.Lock.acquire() does not suspend *)
(* when the lock is free, and no critical section of TaskQueue contains an *)
(* await, so the lock is never contended and is not a state variable.      *)
(* A catalog statement takes effect together with the code that follows    *)
(* it up to the next suspension point.                                     *)
(***************************************************************************)
EXTENDS Integers, Sequences, FiniteSets, TLC

\* ---------------------------------------------------------------- bounds
NumKeys == 3            \* distinct video hashes in the catalog
NumQueueKeys == 2       \* hashes that requests and the restart use
MaxTasks == 2           \* DownloadTask objects ever created (Spec, SpecLive)
MaxQueueTasks == 3      \* DownloadTask objects ever created (SpecQueue)
MaxStamp == 2           \* distinct last_accessed timestamps
MaxWaiters == 1         \* callers suspended in wait_for_task at a time
MaxRequests == 2        \* request_video handlers followed await by await
MaxCacheTasks == 1      \* DownloadTask objects ever created (SpecCache)
MaxPasses == 2          \* calls inside an eviction pass or a sweep at a time
MaxCount == 1           \* access_count values told apart: MaxCount stands for
                        \* MaxCount or more
Keys == 1..NumKeys
QueueKeys == 1..(IF NumQueueKeys < NumKeys THEN NumQueueKeys ELSE NumKeys)
TaskIds == 1..(MaxTasks + MaxQueueTasks + NumKeys)
Sizes == {2, 3, 6}      \* artifact sizes, in quota units
FetchSizes == {6}       \* sizes of freshly fetched artifacts
Damaged == -1           \* a file whose content fails check_video_file_integrity
\* StorageManager.VIDEO_EXTENSIONS
VIDEO_EXTENSIONS == {"mp4", "webm", "mkv", "avi", "mov", "flv", "wmv"}
\* ext in VideoDownloader.download: 'mp3' with extract_audio, else the
\* extension yt-dlp reports, 'mp4' when it reports none
DownloadExts == {"mp4", "webm", "mp3"}

\* -------------------------------------------------- program constants
max_concurrent == 2         \* DownloadConfig.max_concurrent, the default
retry_attempts == 2         \* DownloadConfig.retry_attempts, the default
max_retries == 3            \* DownloadTask.max_retries
\* StorageManager settings, in quota units: a quota of 10, the default
\* cleanup_threshold, and target_free_space set to 20 (the field admits 10..90)
max_size_bytes == 10
storage_cleanup_threshold == 90
target_free_space == 20

PENDING == "pending"
DOWNLOADING == "downloading"
READY == "ready"
FAILED == "failed"
DELETED == "deleted"
NoRow == "none"
VideoStatus == {PENDING, DOWNLOADING, READY, FAILED, DELETED}

VARIABLES
    \* catalog (table videos); status NoRow: the hash has no row
    status, file_size, last_accessed, access_count, created_at,
    \* artifact files under videos_path: 0 absent, else the size; and the
    \* extension the downloader gives the artifact of each hash, fixed by the
    \* hash's URL and the configuration of its source
    files, file_ext,
    \* TaskQueue
    queue, active_tasks, task_cache, task_futures, is_running, next_id,
    total_restored,
    \* _process_task coroutines in flight
    procs,
    \* callers suspended in wait_for_task, and whether the application has shut
    \* down
    waiters, shutdown,
    \* request_video handlers that found no row, suspended in create_video or
    \* answered
    reqs,
    \* StorageManager
    cleanup_running, cleanup, safe_cleanup_task, integrity, cleanup_reply,
    \* observation: the terminal status each task's run recorded
    outcome

catalog == <<status, file_size, last_accessed, access_count, created_at>>
queue_state == <<queue, active_tasks, task_cache, task_futures, next_id>>
storage_state == <<cleanup_running, cleanup, safe_cleanup_task, integrity, cleanup_reply>>
wait_state == <<waiters, shutdown, reqs>>
vars == <<status, file_size, last_accessed, access_count, created_at, files, file_ext,
          queue, active_tasks, task_cache, task_futures, is_running, next_id,
          total_restored, procs, cleanup_running, cleanup, safe_cleanup_task, outcome,
          waiters, shutdown, reqs, integrity, cleanup_reply>>

\* ------------------------------------------------------------- helpers
DictPut(d, k, v) == [x \in (DOMAIN d) \cup {k} |-> IF x = k THEN v ELSE d[x]]
DictDel(d, k) == [x \in (DOMAIN d) \ {k} |-> d[x]]
Range(s) == {s[i] : i \in 1..Len(s)}
RECURSIVE SumOver(_, _)
SumOver(f, S) ==
    IF S = {} THEN 0
    ELSE LET x == CHOOSE y \in S : TRUE IN f[x] + SumOver(f, S \ {x})

\* DownloadTask(video_hash, url); the url is a function of the hash
DownloadTask(id, video_hash) ==
    [id |-> id, video_hash |-> video_hash, retry_count |-> 0]

QueuedHashes == {queue[i].video_hash : i \in 1..Len(queue)}
QueuedCount(k) == Cardinality({i \in 1..Len(queue) : queue[i].video_hash = k})
RunsOf(k) == {p \in procs : p.task.video_hash = k}

\* ------------------------------------------------------------ TaskQueue
\* add_task on a queue state q = [queue, task_cache, task_futures, next_id];
\* the field added is the return value.
add_task_fn(q, video_hash) ==
    IF video_hash \in q.task_cache
    THEN [q EXCEPT !.added = FALSE]
    ELSE [queue |-> Append(q.queue, DownloadTask(q.next_id, video_hash)),
          task_cache |-> q.task_cache \cup {video_hash},
          task_futures |-> DictPut(q.task_futures, video_hash, "pending"),
          next_id |-> q.next_id + 1,
          added |-> TRUE]

CurrentQueue ==
    [queue |-> queue, task_cache |-> task_cache, task_futures |-> task_futures,
     next_id |-> next_id, added |-> FALSE]

\* the task-object bound: a call that would create a task needs a free id
CanAdd(video_hash, cap) == video_hash \in task_cache \/ next_id <= cap

add_task(video_hash) ==
    LET q == add_task_fn(CurrentQueue, video_hash) IN
    /\ queue' = q.queue
    /\ task_cache' = q.task_cache
    /\ task_futures' = q.task_futures
    /\ next_id' = q.next_id

\* get_queue_position: index of the first queued task of the hash, or -1 (None)
get_queue_position(video_hash) ==
    IF video_hash \in QueuedHashes
    THEN (CHOOSE i \in 1..Len(queue) :
            /\ queue[i].video_hash = video_hash
            /\ \A j \in 1..(i - 1) : queue[j].video_hash # video_hash) - 1
    ELSE -1

\* a restore that reads the pending rows only
OnlyPendingRows ==
    LET P == {k \in Keys : status[k] = PENDING} IN
    CHOOSE s \in [1..Cardinality(P) -> P] :
        \A i, j \in DOMAIN s : i < j => created_at[s[i]] < created_at[s[j]]

\* get_pending_videos: hashes of pending/downloading rows, ORDER BY created_at
PendingRows == {k \in Keys : status[k] \in {PENDING, DOWNLOADING}}
get_pending_videos ==
    CHOOSE s \in [1..Cardinality(PendingRows) -> PendingRows] :
        \A i, j \in DOMAIN s : i < j => created_at[s[i]] < created_at[s[j]]

\* _restore_pending_tasks: for each row, update_status(PENDING) then add_task;
\* the field restored_count counts the calls that returned True
RECURSIVE restore_loop(_, _, _)
restore_loop(pending_videos, i, r) ==
    IF i > Len(pending_videos) THEN r
    ELSE LET q == add_task_fn(r.q, pending_videos[i]) IN
         restore_loop(pending_videos, i + 1,
                      [q |-> q,
                       restored_count |-> r.restored_count + (IF q.added THEN 1 ELSE 0)])

\* start(): restore, then create the worker loop
Start ==
    /\ ~is_running
    /\ ~shutdown
    /\ LET pending_videos == get_pending_videos
           r == restore_loop(pending_videos, 1,
                             [q |-> CurrentQueue, restored_count |-> 0]) IN
        /\ status' = [k \in Keys |->
                        IF k \in Range(pending_videos) THEN PENDING ELSE status[k]]
        /\ queue' = r.q.queue
        /\ task_cache' = r.q.task_cache
        /\ task_futures' = r.q.task_futures
        /\ next_id' = r.q.next_id
        /\ total_restored' = r.restored_count
    /\ is_running' = TRUE
    /\ UNCHANGED <<file_size, last_accessed, access_count, created_at, files, file_ext,
                   active_tasks, procs, outcome>>
    /\ UNCHANGED storage_state
    /\ UNCHANGED wait_state

\* _worker_loop iteration that dispatches: _get_next_task + create_task
Dispatch ==
    /\ is_running
    /\ Cardinality(active_tasks) < max_concurrent
    /\ queue # <<>>
    /\ LET task == Head(queue) IN
        /\ queue' = Tail(queue)
        /\ active_tasks' = active_tasks \cup {task.video_hash}
        /\ procs' = procs \cup {[task |-> task, pc |-> "start", file_size |-> 0]}
    /\ UNCHANGED <<task_cache, task_futures, next_id, is_running, total_restored, file_ext, files, outcome>>
    /\ UNCHANGED catalog
    /\ UNCHANGED storage_state
    /\ UNCHANGED wait_state

\* the callers waiting on the future of the hash see it end as how
settle(W, video_hash, how) ==
    {IF w.video_hash = video_hash /\ w.state = "waiting"
     THEN [w EXCEPT !.state = how] ELSE w : w \in W}

\* set_result / set_exception raise InvalidStateError on a future that is
\* already cancelled
FutureCancelled(video_hash) ==
    video_hash \in DOMAIN task_futures /\ task_futures[video_hash] = "cancelled"

\* the finally block of _process_task: the hash leaves the active set and the
\* cache, and its future, cancelled unless it was resolved as how just before,
\* leaves _task_futures
Finally(video_hash, how) ==
    /\ active_tasks' = active_tasks \ {video_hash}
    /\ task_cache' = task_cache \ {video_hash}
    /\ task_futures' = DictDel(task_futures, video_hash)
    /\ waiters' = settle(waiters, video_hash, how)

\* update_status: UPDATE videos SET status = ? WHERE hash = ?, which changes
\* nothing when the hash has no row
update_status(st, k, v) == IF st[k] = NoRow THEN st ELSE [st EXCEPT ![k] = v]

\* _process_task up to the Fetcher call: update_status(DOWNLOADING)
ProcessBegin(p) ==
    /\ p.pc = "start"
    /\ status' = update_status(status, p.task.video_hash, DOWNLOADING)
    /\ procs' = (procs \ {p}) \cup {[p EXCEPT !.pc = "download"]}
    /\ UNCHANGED <<file_size, last_accessed, access_count, created_at, files, is_running, total_restored, file_ext, outcome>>
    /\ UNCHANGED queue_state
    /\ UNCHANGED storage_state
    /\ UNCHANGED wait_state

\* downloader.download returns: the artifact replaces any file of the hash.
\* _check_and_cleanup_storage then runs: queue.py never imports storage, the
\* NameError is caught inside it, nothing happens.
FetchSucceeds(p) ==
    /\ p.pc = "download"
    /\ \E size \in FetchSizes :
        /\ files' = [files EXCEPT ![p.task.video_hash] = size]
        /\ procs' = (procs \ {p}) \cup {[p EXCEPT !.pc = "update", !.file_size = size]}
    /\ UNCHANGED <<is_running, total_restored, file_ext, outcome>>
    /\ UNCHANGED catalog
    /\ UNCHANGED queue_state
    /\ UNCHANGED storage_state
    /\ UNCHANGED wait_state

\* a retry branch that forgets to put the task back
RequeueLost(p) == queue' = queue

\* a re-enqueue that puts the task back where it was taken from
RequeueAtHead(p) ==
    queue' = <<[p.task EXCEPT !.retry_count = p.task.retry_count + 1]>> \o queue

\* the except branch with retry_count < max_retries left over: re-enqueue
Requeue(p) ==
    queue' = Append(queue, [p.task EXCEPT !.retry_count = p.task.retry_count + 1])

\* downloader.download raises: retry_count += 1, then re-enqueue or go on to
\* update_status(FAILED)
FetchFails(p) ==
    /\ p.pc = "download"
    /\ IF p.task.retry_count + 1 < max_retries
       THEN /\ Requeue(p)
            /\ Finally(p.task.video_hash, "cancelled")
            /\ procs' = procs \ {p}
       ELSE /\ procs' = (procs \ {p}) \cup
                  {[p EXCEPT !.pc = "fail",
                             !.task.retry_count = p.task.retry_count + 1]}
            /\ UNCHANGED <<queue, active_tasks, task_cache, task_futures, waiters>>
    /\ UNCHANGED <<next_id, files, is_running, total_restored, file_ext, outcome>>
    /\ UNCHANGED catalog
    /\ UNCHANGED storage_state
    /\ UNCHANGED <<shutdown, reqs>>

\* update_video_on_download on an existing row, then set_result and the
\* finally.  When the future was cancelled meanwhile,
\* set_result raises and the except branch treats the run as a failed attempt.
RecordDownload(p) ==
    /\ p.pc = "update"
    /\ status[p.task.video_hash] # NoRow
    /\ status' = [status EXCEPT ![p.task.video_hash] = READY]
    /\ file_size' = [file_size EXCEPT ![p.task.video_hash] = p.file_size]
    /\ IF ~FutureCancelled(p.task.video_hash)
       THEN /\ outcome' = [outcome EXCEPT ![p.task.id] = READY]
            /\ Finally(p.task.video_hash, "result")
            /\ procs' = procs \ {p}
            /\ UNCHANGED queue
       ELSE IF p.task.retry_count + 1 < max_retries
       THEN /\ Requeue(p)
            /\ Finally(p.task.video_hash, "cancelled")
            /\ procs' = procs \ {p}
            /\ UNCHANGED outcome
       ELSE /\ procs' = (procs \ {p}) \cup
                  {[p EXCEPT !.pc = "fail",
                             !.task.retry_count = p.task.retry_count + 1]}
            /\ UNCHANGED <<queue, active_tasks, task_cache, task_futures, waiters, outcome>>
    /\ UNCHANGED <<last_accessed, access_count, created_at, files, next_id, is_running, total_restored, file_ext>>
    /\ UNCHANGED storage_state
    /\ UNCHANGED <<shutdown, reqs>>

\* update_video_on_download when the UPDATE raises or matches no row: it
\* returns False, _process_task raises, and the except branch treats the run
\* as a failed attempt; the downloaded file is left where it is
RecordDownloadError(p) ==
    /\ p.pc = "update"
    /\ IF p.task.retry_count + 1 < max_retries
       THEN /\ Requeue(p)
            /\ Finally(p.task.video_hash, "cancelled")
            /\ procs' = procs \ {p}
       ELSE /\ procs' = (procs \ {p}) \cup
                  {[p EXCEPT !.pc = "fail",
                             !.task.retry_count = p.task.retry_count + 1]}
            /\ UNCHANGED <<queue, active_tasks, task_cache, task_futures, waiters>>
    /\ UNCHANGED <<next_id, files, is_running, total_restored, file_ext, outcome>>
    /\ UNCHANGED catalog
    /\ UNCHANGED storage_state
    /\ UNCHANGED <<shutdown, reqs>>

\* update_status(FAILED), set_exception, finally
RecordFailed(p) ==
    /\ p.pc = "fail"
    /\ status' = update_status(status, p.task.video_hash, FAILED)
    /\ outcome' = [outcome EXCEPT ![p.task.id] = FAILED]
    /\ Finally(p.task.video_hash, "exception")
    /\ procs' = procs \ {p}
    /\ UNCHANGED <<file_size, last_accessed, access_count, created_at, files, queue, next_id,
                   is_running, total_restored, file_ext>>
    /\ UNCHANGED storage_state
    /\ UNCHANGED <<shutdown, reqs>>

\* one step of the _process_task coroutine of task id
ProcessTask(id) ==
    \E p \in procs :
        /\ p.task.id = id
        /\ \/ ProcessBegin(p)
           \/ FetchSucceeds(p)
           \/ FetchFails(p)
           \/ RecordDownload(p)
           \/ RecordFailed(p)

\* wait_for_task(video_hash, timeout) up to its await: without a future it
\* returns False at once; a future that is already cancelled ends the wait at
\* once; otherwise the caller is suspended in asyncio.wait_for
wait_for_task(video_hash) ==
    /\ is_running
    /\ Cardinality(waiters) < MaxWaiters
    /\ \A w \in waiters : w.video_hash # video_hash
    /\ waiters' = waiters \cup
          {[video_hash |-> video_hash,
            state |-> IF video_hash \notin DOMAIN task_futures THEN "nofuture"
                      ELSE IF task_futures[video_hash] = "cancelled" THEN "cancelled"
                      ELSE "waiting"]}
    /\ UNCHANGED <<files, is_running, total_restored, file_ext, procs, outcome, shutdown, reqs>>
    /\ UNCHANGED catalog
    /\ UNCHANGED queue_state
    /\ UNCHANGED storage_state

\* the timeout of asyncio.wait_for elapses: it cancels the future it waits for
\* and raises TimeoutError
wait_timeout(w) ==
    /\ w.state = "waiting"
    /\ task_futures' = [task_futures EXCEPT ![w.video_hash] = "cancelled"]
    /\ waiters' = settle(waiters \ {w}, w.video_hash, "cancelled")
                      \cup {[w EXCEPT !.state = "timeout"]}
    /\ UNCHANGED <<queue, active_tasks, task_cache, next_id>>
    /\ UNCHANGED <<files, is_running, total_restored, file_ext, procs, outcome, shutdown, reqs>>
    /\ UNCHANGED catalog
    /\ UNCHANGED storage_state

\* what wait_for_task gives its caller once the wait has ended as state: True
\* for a result; TimeoutError and CancelledError are caught and give False;
\* the exception of the future is not caught
wait_for_task_returns(state) ==
    IF state = "result" THEN "True"
    ELSE IF state \in {"nofuture", "timeout", "cancelled"} THEN "False"
    ELSE "raises"

\* the caller of wait_for_task resumes
wait_return(w) ==
    /\ w.state # "waiting"
    /\ waiters' = waiters \ {w}
    /\ UNCHANGED <<files, is_running, total_restored, file_ext, procs, outcome, shutdown, reqs>>
    /\ UNCHANGED catalog
    /\ UNCHANGED queue_state
    /\ UNCHANGED storage_state

\* stop() at application shutdown: every future that is not done is cancelled
\* and the worker loop is cancelled; runs in flight go on
stop ==
    /\ is_running
    /\ is_running' = FALSE
    /\ shutdown' = TRUE
    /\ task_futures' = [k \in DOMAIN task_futures |-> "cancelled"]
    /\ waiters' = {IF w.state = "waiting" THEN [w EXCEPT !.state = "cancelled"] ELSE w :
                      w \in waiters}
    /\ UNCHANGED <<queue, active_tasks, task_cache, next_id>>
    /\ UNCHANGED <<files, total_restored, file_ext, procs, outcome, reqs>>
    /\ UNCHANGED catalog
    /\ UNCHANGED storage_state

\* ------------------------------------------------------------------ API
\* create_video: INSERT OR IGNORE of a pending row stamped with the current time
NextStamp ==
    IF \A k \in Keys : created_at[k] = 0 THEN 1
    ELSE 1 + (CHOOSE m \in {created_at[k] : k \in Keys} :
                \A k \in Keys : created_at[k] <= m)

\* check_video_file_integrity_extended, as far as file sizes decide it: the
\* file must be within 10% of the recorded size
SizeMatches(k) ==
    LET d == IF files[k] > file_size[k] THEN files[k] - file_size[k]
             ELSE file_size[k] - files[k] IN
    ~(file_size[k] # 0 /\ d * 10 > file_size[k])

None == 0

\* a lookup that trusts the catalog and never looks at the disk
FindIgnoresDisk(k) == k

\* _find_video_file: the hash when a file named by the hash and one of
\* VIDEO_EXTENSIONS exists, None otherwise
find_video_file(k) ==
    IF files[k] # 0 /\ file_ext[k] \in VIDEO_EXTENSIONS THEN k ELSE None

\* find_video_path: what _find_video_file gives, when it is readable
find_video_path(k) == find_video_file(k)

\* the READY branch of request_video finds the artifact in place and intact
Valid(k) == find_video_path(k) # None /\ files[k] # Damaged /\ SizeMatches(k)

\* a DELETE FROM videos WHERE hash = ?
mark_video_removed(st, k) == [st EXCEPT ![k] = NoRow]

\* the same UPDATE without its WHERE clause
mark_all_deleted(st, k) ==
    [j \in DOMAIN st |-> IF st[j] = NoRow THEN NoRow ELSE DELETED]

\* mark_video_deleted: UPDATE ... SET status = 'deleted' WHERE hash = ?
mark_video_deleted(st, k) ==
    [st EXCEPT ![k] = IF st[k] = NoRow THEN NoRow ELSE DELETED]

\* GET /video for the hash k.  Branches that change nothing (the row is READY
\* with its file in place, or PENDING with a queued task) are stuttering steps.
request_video(k) ==
    /\ is_running
    /\ \/ /\ status[k] = NoRow
          /\ status' = [status EXCEPT ![k] = PENDING]
          /\ created_at' = [created_at EXCEPT ![k] = NextStamp]
          /\ add_task(k)
          /\ UNCHANGED <<file_size, files>>
       \/ /\ status[k] = READY
          /\ find_video_path(k) = None
          /\ status' = [status EXCEPT ![k] = PENDING]
          /\ file_size' = [file_size EXCEPT ![k] = 0]
          /\ add_task(k)
          /\ UNCHANGED <<created_at, files>>
       \/ /\ status[k] = READY
          /\ find_video_path(k) # None
          /\ ~Valid(k)
          /\ files' = [files EXCEPT ![k] = 0]
          /\ status' = [status EXCEPT ![k] = PENDING]
          /\ add_task(k)
          /\ UNCHANGED <<created_at, file_size>>
       \/ /\ status[k] \in {FAILED, DOWNLOADING, DELETED}
          /\ status' = [status EXCEPT ![k] = PENDING]
          /\ add_task(k)
          /\ UNCHANGED <<created_at, file_size, files>>
       \/ /\ status[k] = PENDING
          /\ get_queue_position(k) = -1
          /\ add_task(k)
          /\ UNCHANGED <<status, created_at, file_size, files>>
    /\ UNCHANGED <<last_accessed, access_count, active_tasks, is_running, total_restored, file_ext,
                   procs, outcome>>
    /\ UNCHANGED storage_state
    /\ UNCHANGED wait_state

\* the row of the hash k, NoRow in every column when there is none
Row(k) ==
    [status |-> status[k], created_at |-> created_at[k],
     file_size |-> file_size[k], last_accessed |-> last_accessed[k],
     access_count |-> access_count[k]]

\* an INSERT OR REPLACE: the row is written whether or not one exists
create_or_replace_video(row, now) ==
    [row |-> [status |-> PENDING, created_at |-> now, file_size |-> 0,
              last_accessed |-> 0, access_count |-> 0],
     created |-> TRUE]

\* create_video on the row of its hash: INSERT OR IGNORE of a pending row
\* stamped now; the result is rowcount > 0
create_video(row, now) ==
    IF row.status = NoRow
    THEN [row |-> [status |-> PENDING, created_at |-> now, file_size |-> 0,
                   last_accessed |-> 0, access_count |-> 0],
          created |-> TRUE]
    ELSE [row |-> row, created |-> FALSE]

\* GET /video for a hash without a row, await by await.  get_video returns
\* None: the handler goes on to create_video and is suspended there.
request_begin(rid, k) ==
    /\ is_running
    /\ \A r \in reqs : r.rid # rid
    /\ status[k] = NoRow
    /\ reqs' = reqs \cup {[rid |-> rid, video_hash |-> k, pc |-> "create",
                            created |-> FALSE, added |-> FALSE, position |-> -1,
                            reply |-> "none"]}
    /\ UNCHANGED <<files, is_running, total_restored, file_ext, procs, outcome, waiters, shutdown>>
    /\ UNCHANGED catalog
    /\ UNCHANGED queue_state
    /\ UNCHANGED storage_state

\* create_video returns (its result is not looked at by the handler), then
\* add_task, and get_queue_position when add_task returned False; the reply
\* is kept in the handler's record
request_create(r) ==
    /\ r.pc = "create"
    /\ LET k == r.video_hash
           q == add_task_fn(CurrentQueue, k)
           c == create_video(Row(k), NextStamp) IN
        /\ status' = [status EXCEPT ![k] = c.row.status]
        /\ created_at' = [created_at EXCEPT ![k] = c.row.created_at]
        /\ file_size' = [file_size EXCEPT ![k] = c.row.file_size]
        /\ last_accessed' = [last_accessed EXCEPT ![k] = c.row.last_accessed]
        /\ access_count' = [access_count EXCEPT ![k] = c.row.access_count]
        /\ add_task(k)
        /\ reqs' = (reqs \ {r}) \cup
              {[r EXCEPT !.pc = "done",
                         !.created = c.created,
                         !.added = q.added,
                         !.position = IF q.added THEN -1 ELSE get_queue_position(k),
                         !.reply = PENDING]}
    /\ UNCHANGED <<files, active_tasks, is_running,
                   total_restored, file_ext, procs, outcome, waiters, shutdown>>
    /\ UNCHANGED storage_state

\* create_video when the INSERT raises: the except clause logs the error and
\* returns False, and no row is written
create_video_error(row) == [row |-> row, created |-> FALSE]

\* the handler resumes after a create_video whose INSERT raised: the result is
\* not looked at, and add_task and the reply follow as after a success
request_create_error(r) ==
    /\ r.pc = "create"
    /\ LET k == r.video_hash
           q == add_task_fn(CurrentQueue, k)
           c == create_video_error(Row(k)) IN
        /\ add_task(k)
        /\ reqs' = (reqs \ {r}) \cup
              {[r EXCEPT !.pc = "done",
                         !.created = c.created,
                         !.added = q.added,
                         !.position = IF q.added THEN -1 ELSE get_queue_position(k),
                         !.reply = PENDING]}
    /\ UNCHANGED <<files, active_tasks, is_running,
                   total_restored, file_ext, procs, outcome, waiters, shutdown>>
    /\ UNCHANGED catalog
    /\ UNCHANGED storage_state

\* a reply of READY that enqueues a task all the same
CachedRequeues(rid, k) ==
    /\ add_task(k)
    /\ reqs' = reqs \cup {[rid |-> rid, video_hash |-> k, pc |-> "done",
                            created |-> FALSE, added |-> TRUE, position |-> -1,
                            reply |-> READY]}
    /\ UNCHANGED active_tasks

\* the READY branch of request_video with the artifact in place and intact: the
\* reply is READY with the stream URL and nothing else happens
ReplyReady(rid, k) ==
    /\ reqs' = reqs \cup {[rid |-> rid, video_hash |-> k, pc |-> "done",
                            created |-> FALSE, added |-> FALSE, position |-> -1,
                            reply |-> READY]}
    /\ UNCHANGED queue_state

\* GET /video for a READY hash whose artifact is in place and intact; rid
\* numbers the requests in the order of their arrival
request_cached(rid, k) ==
    /\ is_running
    /\ rid = Cardinality(reqs) + 1
    /\ status[k] = READY
    /\ Valid(k)
    /\ ReplyReady(rid, k)
    /\ UNCHANGED <<files, is_running, total_restored, file_ext, procs, outcome, waiters, shutdown>>
    /\ UNCHANGED catalog
    /\ UNCHANGED storage_state

\* the environment: the artifact of a hash disappears from the disk
lose_file(k) ==
    /\ files[k] # 0
    /\ files' = [files EXCEPT ![k] = 0]
    /\ UNCHANGED <<is_running, total_restored, file_ext, procs, outcome>>
    /\ UNCHANGED catalog
    /\ UNCHANGED queue_state
    /\ UNCHANGED storage_state
    /\ UNCHANGED wait_state

\* GET /stream/{hash}: a READY row gets last_accessed = CURRENT_TIMESTAMP (one
\* second resolution: the stamp is the latest one written or a later one) and
\* access_count + 1
stream_video(k) ==
    /\ is_running
    /\ status[k] = READY
    /\ \E t \in 1..MaxStamp :
        /\ \A j \in Keys : last_accessed[j] <= t
        /\ last_accessed' = [last_accessed EXCEPT ![k] = t]
    /\ access_count' = [access_count EXCEPT ![k] =
            IF access_count[k] < MaxCount THEN access_count[k] + 1 ELSE MaxCount]
    /\ UNCHANGED <<status, file_size, created_at, files, is_running, total_restored, file_ext,
                   procs, outcome>>
    /\ UNCHANGED queue_state
    /\ UNCHANGED storage_state
    /\ UNCHANGED wait_state

\* ------------------------------------------------------- StorageManager
\* rows of get_all_ready / get_storage_stats
ReadyRows == {k \in Keys : status[k] = READY /\ file_size[k] # 0}
total_size == SumOver(file_size, ReadyRows)

\* round((used / max) * 100, 1), in tenths of a percent
used_percent_x10 == (total_size * 2000 + max_size_bytes) \div (2 * max_size_bytes)

\* current_size <= max_size_bytes * (1 - target_free_space / 100)
AtTarget(current_size) ==
    current_size * 100 <= max_size_bytes * (100 - target_free_space)

\* get_all_ready_videos: ORDER BY last_accessed (NULL, written 0, first); rows
\* with equal stamps come in any order
ReadyOrders ==
    {s \in [1..Cardinality(ReadyRows) -> ReadyRows] :
        /\ \A i, j \in DOMAIN s : i # j => s[i] # s[j]
        /\ \A i, j \in DOMAIN s : i < j => last_accessed[s[i]] <= last_accessed[s[j]]}

\* videos.sort(key=last_accessed or 0): the key is the int 0 for a NULL stamp and
\* a str otherwise, and comparing the two raises TypeError
SortRaises ==
    \E a, b \in ReadyRows : last_accessed[a] = 0 /\ last_accessed[b] # 0

\* the locals of the pass that is followed, and the number of calls that are
\* inside the body of cleanup_old_videos
IdleCleanup ==
    [pc |-> "idle", videos |-> <<>>, i |-> 1, current_size |-> 0,
     deleted_hashes |-> <<>>, executing |-> 0]

\* a pass that starts whatever the flag says
cleanup_unguarded == TRUE

\* if self._cleanup_running: return []
cleanup_guard == ~cleanup_running

\* a call of cleanup_old_videos() up to its first await: the flag is set and
\* the coroutine waits for get_all_ready_videos.  A call made while the flag is
\* set returns [] at once and changes nothing.
cleanup_old_videos ==
    /\ is_running
    /\ cleanup_guard
    /\ cleanup.executing < MaxPasses
    /\ cleanup' = IF cleanup.pc \in {"idle", "done"}
                  THEN [IdleCleanup EXCEPT !.pc = "scan", !.executing = 1]
                  ELSE [cleanup EXCEPT !.executing = @ + 1]
    /\ cleanup_running' = TRUE
    /\ UNCHANGED <<files, is_running, total_restored, file_ext, procs, outcome, safe_cleanup_task>>
    /\ UNCHANGED catalog
    /\ UNCHANGED queue_state
    /\ UNCHANGED wait_state
    /\ UNCHANGED <<integrity, cleanup_reply>>

\* index of the first snapshot row from c.i on whose file _find_video_file
\* locates, 0 if there is none
NextVictim(c) ==
    LET C == {j \in c.i..Len(c.videos) : find_video_file(c.videos[j].hash) # None}
    IN IF C = {} THEN 0 ELSE CHOOSE j \in C : \A m \in C : j <= m

\* the for loop of cleanup_old_videos from row c.i up to the next await: rows
\* without a file are skipped, the first row with a file is unlinked and the
\* coroutine waits for mark_video_deleted; or the loop ends, the finally clears
\* the flag and deleted_hashes is returned
cleanup_for_loop(c) ==
    IF AtTarget(c.current_size) \/ NextVictim(c) = 0
    THEN /\ cleanup' = [c EXCEPT !.pc = "done", !.executing = @ - 1]
         /\ cleanup_running' = FALSE
         /\ UNCHANGED files
    ELSE /\ files' = [files EXCEPT ![c.videos[NextVictim(c)].hash] = 0]
         /\ cleanup' = [c EXCEPT !.pc = "mark", !.i = NextVictim(c)]
         /\ UNCHANGED cleanup_running

\* get_all_ready_videos returns: sort, sum, compare with the target, and the
\* loop up to its first await.  A TypeError of the sort is caught by the
\* except clause: nothing is deleted.
cleanup_scan ==
    /\ cleanup.pc = "scan"
    /\ IF SortRaises
       THEN /\ cleanup' = [cleanup EXCEPT !.pc = "done", !.executing = @ - 1]
            /\ cleanup_running' = FALSE
            /\ UNCHANGED files
       ELSE \E order \in ReadyOrders :
            LET videos == [i \in DOMAIN order |->
                             [hash |-> order[i], file_size |-> file_size[order[i]]]]
            IN cleanup_for_loop([cleanup EXCEPT !.videos = videos, !.i = 1,
                                                !.current_size = total_size])
    /\ UNCHANGED <<is_running, total_restored, file_ext, procs, outcome, safe_cleanup_task>>
    /\ UNCHANGED catalog
    /\ UNCHANGED queue_state
    /\ UNCHANGED wait_state
    /\ UNCHANGED <<integrity, cleanup_reply>>

\* mark_video_deleted returns for the row just unlinked: the row is DELETED
\* whatever its status was, its size is subtracted, and the loop goes on
cleanup_mark ==
    /\ cleanup.pc = "mark"
    /\ LET video == cleanup.videos[cleanup.i] IN
        /\ status' = mark_video_deleted(status, video.hash)
        /\ file_size' = [file_size EXCEPT ![video.hash] = 0]
        /\ cleanup_for_loop(
              [cleanup EXCEPT
                 !.i = cleanup.i + 1,
                 !.current_size = cleanup.current_size - video.file_size,
                 !.deleted_hashes = Append(cleanup.deleted_hashes, video.hash)])
    /\ UNCHANGED <<last_accessed, access_count, created_at, is_running, total_restored, file_ext, procs, outcome,
                   safe_cleanup_task>>
    /\ UNCHANGED queue_state
    /\ UNCHANGED wait_state
    /\ UNCHANGED <<integrity, cleanup_reply>>

\* _is_monitoring: set by start_monitoring at startup, after queue.start();
\* shutdown_event does not call stop_monitoring, and nothing else does
is_monitoring == is_running \/ shutdown

\* _perform_monitoring_checks, the storage part: create the task that runs
\* _safe_cleanup_old_videos
perform_monitoring_checks ==
    /\ is_monitoring
    /\ ~safe_cleanup_task
    /\ used_percent_x10 >= storage_cleanup_threshold * 10
    /\ ~cleanup_running
    /\ safe_cleanup_task' = TRUE
    /\ UNCHANGED <<files, is_running, total_restored, file_ext, procs, outcome, cleanup_running, cleanup>>
    /\ UNCHANGED catalog
    /\ UNCHANGED queue_state
    /\ UNCHANGED wait_state
    /\ UNCHANGED <<integrity, cleanup_reply>>

\* _safe_cleanup_old_videos: it returns when a cleanup is flagged as running;
\* otherwise it sets _cleanup_running and awaits cleanup_old_videos(), whose
\* guard sees the flag and returns [] at once, and the finally clears the flag
safe_cleanup_old_videos ==
    /\ safe_cleanup_task
    /\ safe_cleanup_task' = FALSE
    /\ UNCHANGED <<files, is_running, total_restored, file_ext, procs, outcome, cleanup_running, cleanup>>
    /\ UNCHANGED catalog
    /\ UNCHANGED queue_state
    /\ UNCHANGED wait_state
    /\ UNCHANGED <<integrity, cleanup_reply>>

\* POST /cleanup: the handler calls storage.cleanup_old_videos(aggressive=...),
\* whose only parameter is self: the call raises TypeError before the body of
\* cleanup_old_videos runs, for either value of the flag, and the reply is an
\* internal server error
trigger_cleanup(aggressive) ==
    /\ is_running
    /\ cleanup_reply' = "error"
    /\ UNCHANGED <<files, is_running, total_restored, file_ext, procs, outcome>>
    /\ UNCHANGED <<cleanup_running, cleanup, safe_cleanup_task, integrity>>
    /\ UNCHANGED catalog
    /\ UNCHANGED queue_state
    /\ UNCHANGED wait_state

\* a check that passes every file
CheckAlwaysPasses(k) == TRUE

\* check_video_file_integrity on the file of the hash
check_video_file_integrity(k) == files[k] # Damaged

\* the locals of the sweep that is followed, and the number of calls that are
\* inside the body of check_all_video_integrity
IdleIntegrity ==
    [pc |-> "idle", videos |-> <<>>, i |-> 1, damaged_files |-> <<>>,
     executing |-> 0]

\* _integrity_check_running: set by _safe_check_video_integrity around the sweep
integrity_check_running == integrity.pc \in {"scan", "mark"}

\* the task created by the monitoring check starts: _safe_check_video_integrity
\* sets the flag and check_all_video_integrity waits for get_all_ready_videos
safe_check_video_integrity ==
    /\ is_monitoring
    /\ ~integrity_check_running
    /\ integrity.executing < MaxPasses
    /\ integrity' = IF integrity.pc \in {"idle", "done"}
                    THEN [IdleIntegrity EXCEPT !.pc = "scan", !.executing = 1]
                    ELSE [integrity EXCEPT !.executing = @ + 1]
    /\ UNCHANGED <<files, is_running, total_restored, file_ext, procs, outcome>>
    /\ UNCHANGED <<cleanup_running, cleanup, safe_cleanup_task, cleanup_reply>>
    /\ UNCHANGED catalog
    /\ UNCHANGED queue_state
    /\ UNCHANGED wait_state

\* index of the first snapshot row from c.i on whose file exists and fails the
\* check, 0 if there is none
NextDamaged(c) ==
    LET C == {j \in c.i..Len(c.videos) :
                /\ find_video_file(c.videos[j]) # None
                /\ ~check_video_file_integrity(c.videos[j])}
    IN IF C = {} THEN 0 ELSE CHOOSE j \in C : \A m \in C : j <= m

\* the for loop of check_all_video_integrity from row c.i up to the next await:
\* rows whose file is missing or passes are skipped, the first damaged file is
\* unlinked and the coroutine waits for mark_video_deleted; or the loop ends
integrity_for_loop(c) ==
    IF NextDamaged(c) = 0
    THEN /\ integrity' = [c EXCEPT !.pc = "done", !.i = Len(c.videos) + 1,
                                    !.executing = @ - 1]
         /\ UNCHANGED files
    ELSE /\ files' = [files EXCEPT ![c.videos[NextDamaged(c)]] = 0]
         /\ integrity' = [c EXCEPT !.pc = "mark", !.i = NextDamaged(c),
                !.damaged_files = Append(c.damaged_files, c.videos[NextDamaged(c)])]

\* get_all_ready_videos returns, [] when the connection has been closed, and
\* the loop runs up to its first await
integrity_scan ==
    /\ integrity.pc = "scan"
    /\ \E order \in (IF shutdown THEN {<<>>} ELSE ReadyOrders) :
          integrity_for_loop([integrity EXCEPT !.videos = order, !.i = 1])
    /\ UNCHANGED <<is_running, total_restored, file_ext, procs, outcome>>
    /\ UNCHANGED <<cleanup_running, cleanup, safe_cleanup_task, cleanup_reply>>
    /\ UNCHANGED catalog
    /\ UNCHANGED queue_state
    /\ UNCHANGED wait_state

\* mark_video_deleted returns for the file just unlinked, and the loop goes on
integrity_mark ==
    /\ integrity.pc = "mark"
    /\ status' = mark_video_deleted(status, integrity.videos[integrity.i])
    /\ file_size' = [file_size EXCEPT ![integrity.videos[integrity.i]] = 0]
    /\ integrity_for_loop([integrity EXCEPT !.i = integrity.i + 1])
    /\ UNCHANGED <<last_accessed, access_count, created_at, is_running, total_restored, file_ext, procs, outcome>>
    /\ UNCHANGED <<cleanup_running, cleanup, safe_cleanup_task, cleanup_reply>>
    /\ UNCHANGED queue_state
    /\ UNCHANGED wait_state

\* mark_video_deleted fails for the file just unlinked: it logs the error and
\* returns False, the row stays as it is, and the loop goes on
integrity_mark_error ==
    /\ integrity.pc = "mark"
    /\ integrity_for_loop([integrity EXCEPT !.i = integrity.i + 1])
    /\ UNCHANGED <<is_running, total_restored, file_ext, procs, outcome>>
    /\ UNCHANGED <<cleanup_running, cleanup, safe_cleanup_task, cleanup_reply>>
    /\ UNCHANGED catalog
    /\ UNCHANGED queue_state
    /\ UNCHANGED wait_state

\* the environment: the content of an artifact gets damaged
corrupt_file(k) ==
    /\ files[k] \notin {0, Damaged}
    /\ files' = [files EXCEPT ![k] = Damaged]
    /\ UNCHANGED <<is_running, total_restored, file_ext, procs, outcome>>
    /\ UNCHANGED catalog
    /\ UNCHANGED queue_state
    /\ UNCHANGED storage_state
    /\ UNCHANGED wait_state

\* ------------------------------------------------------- specifications
EmptyQueueState ==
    /\ queue = <<>>
    /\ active_tasks = {}
    /\ task_cache = {}
    /\ task_futures = <<>>
    /\ next_id = 1
    /\ total_restored = 0
    /\ procs = {}
    /\ outcome = [id \in TaskIds |-> "none"]
    /\ waiters = {}
    /\ shutdown = FALSE
    /\ reqs = {}

IdleStorage ==
    /\ cleanup_running = FALSE
    /\ cleanup = IdleCleanup
    /\ safe_cleanup_task = FALSE
    /\ integrity = IdleIntegrity
    /\ cleanup_reply = "none"

\* created_at ranks the rows 1..n in some order
RankedRows ==
    LET R == {k \in Keys : status[k] # NoRow} IN
    /\ \A k \in Keys \ R : created_at[k] = 0
    /\ \A k \in R : created_at[k] \in 1..Cardinality(R)
    /\ \A a, b \in R : a # b => created_at[a] # created_at[b]

\* the process starts on a catalog left by an earlier run
Init ==
    /\ status \in [Keys -> VideoStatus \cup {NoRow}]
    /\ \A k \in Keys \ QueueKeys : status[k] = NoRow
    /\ file_size \in [Keys -> {0} \cup FetchSizes]
    /\ \A k \in Keys : file_size[k] # 0 <=> status[k] = READY
    /\ files \in [Keys -> {0} \cup FetchSizes]
    /\ \A k \in Keys : files[k] # 0 => files[k] = file_size[k]
    /\ file_ext = [k \in Keys |-> "mp4"]
    /\ last_accessed = [k \in Keys |-> 0]
    /\ access_count = [k \in Keys |-> 0]
    /\ created_at \in [Keys -> 0..NumKeys]
    /\ RankedRows
    /\ is_running = FALSE
    /\ EmptyQueueState
    /\ IdleStorage

\* requests for any of the hashes, while task objects are left
Requests(cap) == \E k \in QueueKeys : CanAdd(k, cap) /\ request_video(k)

NextQueue(cap) ==
    \/ Start
    \/ Requests(cap)
    \/ Dispatch
    \/ \E id \in TaskIds : ProcessTask(id)

NextStorage ==
    \/ \E k \in Keys : stream_video(k)
    \/ cleanup_old_videos
    \/ cleanup_scan
    \/ cleanup_mark
    \/ perform_monitoring_checks
    \/ safe_cleanup_old_videos

Next == NextQueue(MaxTasks) \/ NextStorage

\* the whole system
Spec == Init /\ [][Next]_vars

\* the queue, the catalog and the request handler, with one more task object
SpecQueue == Init /\ [][NextQueue(MaxQueueTasks)]_vars

\* the event loop runs every ready coroutine: the dispatcher and each
\* _process_task coroutine keep taking steps, and the Fetcher returns
\* one turn of _monitor_loop: after its sleep it takes the lock and logs the
\* sizes of the queue and of the active set; it writes nothing
monitor_loop ==
    /\ is_running
    /\ UNCHANGED vars

\* the steps of _process_task that wait for the database, not for the Fetcher
RunStep(id) ==
    \E p \in procs :
        /\ p.task.id = id
        /\ \/ ProcessBegin(p)
           \/ RecordDownload(p)
           \/ RecordFailed(p)

LiveIds == 1..(IF MaxTasks > NumQueueKeys THEN MaxTasks ELSE NumQueueKeys)
Fairness ==
    /\ WF_vars(Dispatch)
    /\ \A id \in LiveIds : WF_vars(ProcessTask(id))

\* a first start, or a start after a crash that interrupted work; the hashes
\* are interchangeable, so the rows are taken to have been created in key order
InitCrash ==
    /\ Init
    /\ \A k \in Keys : status[k] \in {NoRow, PENDING, DOWNLOADING}
    /\ \A a, b \in Keys :
          (status[a] # NoRow /\ status[b] # NoRow /\ a < b) => created_at[a] < created_at[b]

\* the queue under fair scheduling
SpecLive == InitCrash /\ [][NextQueue(MaxTasks)]_vars /\ Fairness

\* the queue after a start, with requests, without fairness
SpecFifo == InitCrash /\ [][NextQueue(MaxTasks)]_vars

\* the queue with its monitor; the worker loop, the monitor and the database
\* are scheduled fairly, the Fetcher may never return
NextHang ==
    \/ NextQueue(MaxTasks)
    \/ monitor_loop

FairnessHang ==
    /\ WF_vars(Dispatch)
    /\ WF_vars(monitor_loop)
    /\ \A id \in LiveIds : WF_vars(RunStep(id))

SpecHang == InitCrash /\ [][NextHang]_vars /\ FairnessHang

\* the restart alone: restore, then the restored tasks run
NextRestart ==
    \/ Start
    \/ Dispatch
    \/ \E id \in TaskIds : ProcessTask(id)

SpecRestart == Init /\ [][NextRestart]_vars

\* the process is killed and started again: the task objects, the futures and
\* the coroutines are lost, the rows and the files stay, and start() restores
\* from the rows; the videos table has no retry column, every restored task
\* is a new DownloadTask
Restart ==
    /\ is_running
    /\ ~shutdown
    /\ LET pending_videos == get_pending_videos
           r == restore_loop(pending_videos, 1,
                             [q |-> [queue |-> <<>>, task_cache |-> {},
                                     task_futures |-> <<>>, next_id |-> 1,
                                     added |-> FALSE],
                              restored_count |-> 0]) IN
        /\ status' = [k \in Keys |->
                        IF k \in Range(pending_videos) THEN PENDING ELSE status[k]]
        /\ queue' = r.q.queue
        /\ task_cache' = r.q.task_cache
        /\ task_futures' = r.q.task_futures
        /\ next_id' = r.q.next_id
        /\ total_restored' = r.restored_count
    /\ active_tasks' = {}
    /\ procs' = {}
    /\ outcome' = [id \in TaskIds |-> "none"]
    /\ UNCHANGED <<file_size, last_accessed, access_count, created_at, files, file_ext,
                   is_running>>
    /\ UNCHANGED storage_state
    /\ UNCHANGED wait_state

NextCrash == NextRestart \/ Restart

SpecCrash == InitCrash /\ [][NextCrash]_vars

\* the queue with callers of wait_for_task and the shutdown
NextWait ==
    \/ NextQueue(MaxTasks)
    \/ \E k \in QueueKeys : wait_for_task(k)
    \/ \E w \in waiters : wait_timeout(w)
    \/ \E w \in waiters : wait_return(w)
    \/ stop

SpecWait == InitCrash /\ [][NextWait]_vars

\* the server from startup to shutdown: the queue, its waiters and monitor, the
\* storage monitor's integrity sweeps, and shutdown_event
NextShutdown ==
    \/ NextWait
    \/ monitor_loop
    \/ safe_check_video_integrity
    \/ integrity_scan

SpecShutdown == InitCrash /\ [][NextShutdown]_vars

\* an empty catalog
InitEmpty ==
    /\ Init
    /\ \A k \in Keys : status[k] = NoRow

\* requests for new hashes racing each other, the dispatcher and the runs
NextRace ==
    \/ Start
    \/ \E rid \in 1..MaxRequests : \E k \in QueueKeys : request_begin(rid, k)
    \/ \E r \in reqs : CanAdd(r.video_hash, MaxTasks) /\ request_create(r)
    \/ Dispatch
    \/ \E id \in TaskIds : ProcessTask(id)

SpecRace == InitEmpty /\ [][NextRace]_vars

\* the same on a database whose statements may fail
NextDbError ==
    \/ NextRace
    \/ \E r \in reqs : CanAdd(r.video_hash, MaxTasks) /\ request_create_error(r)
    \/ \E p \in procs : RecordDownloadError(p)

SpecDbError == InitEmpty /\ [][NextDbError]_vars

\* the server starts on a catalog whose rows are all READY with their artifact
InitCached ==
    /\ status \in [Keys -> {NoRow, READY}]
    /\ \A k \in Keys \ QueueKeys : status[k] = NoRow
    /\ file_size \in [Keys -> {0} \cup FetchSizes]
    /\ \A k \in Keys : file_size[k] # 0 <=> status[k] = READY
    /\ files = file_size
    /\ file_ext = [k \in Keys |-> "mp4"]
    /\ last_accessed = [k \in Keys |-> 0]
    /\ access_count = [k \in Keys |-> 0]
    /\ created_at = [k \in Keys |->
            IF status[k] = NoRow THEN 0
            ELSE Cardinality({j \in 1..k : status[j] # NoRow})]
    /\ is_running = FALSE
    /\ EmptyQueueState
    /\ IdleStorage

\* a fresh server whose sources give their artifacts any of the extensions
\* the downloader can produce
InitExt ==
    /\ status = [k \in Keys |-> NoRow]
    /\ file_size = [k \in Keys |-> 0]
    /\ files = [k \in Keys |-> 0]
    /\ file_ext \in [Keys -> DownloadExts]
    /\ \A k \in Keys \ QueueKeys : file_ext[k] = "mp4"
    /\ last_accessed = [k \in Keys |-> 0]
    /\ access_count = [k \in Keys |-> 0]
    /\ created_at = [k \in Keys |-> 0]
    /\ is_running = FALSE
    /\ EmptyQueueState
    /\ IdleStorage

SpecExt == InitExt /\ [][NextQueue(MaxCacheTasks)]_vars

\* the queue and the request handler on a disk that loses files, with the
\* replies for cached hashes kept
NextCache ==
    \/ NextQueue(MaxCacheTasks)
    \/ \E rid \in 1..MaxRequests : \E k \in QueueKeys : request_cached(rid, k)
    \/ \E k \in QueueKeys : lose_file(k)

SpecCache == InitCached /\ [][NextCache]_vars

\* a settled server: the queue is idle, READY rows of any size and stamp, whose
\* file may have vanished
InitStorage ==
    /\ status \in [Keys -> {NoRow, READY, FAILED, DELETED}]
    /\ file_size \in [Keys -> {0} \cup Sizes]
    /\ \A k \in Keys : file_size[k] # 0 <=> status[k] = READY
    /\ files \in [Keys -> {0} \cup Sizes]
    /\ \A k \in Keys : files[k] # 0 => files[k] = file_size[k]
    /\ file_ext = [k \in Keys |-> "mp4"]
    /\ last_accessed \in [Keys -> 0..MaxStamp]
    /\ \A k \in Keys : last_accessed[k] # 0 => status[k] = READY
    /\ access_count \in [Keys -> 0..MaxCount]
    /\ \A k \in Keys : access_count[k] # 0 <=> last_accessed[k] # 0
    /\ created_at = [k \in Keys |->
            IF status[k] = NoRow THEN 0
            ELSE Cardinality({j \in 1..k : status[j] # NoRow})]
    /\ is_running = TRUE
    /\ EmptyQueueState
    /\ IdleStorage

SpecStorage == InitStorage /\ [][NextStorage]_vars

\* a settled server that goes on serving: eviction passes next to requests,
\* the dispatcher and the runs
NextEvict ==
    \/ cleanup_old_videos
    \/ cleanup_scan
    \/ cleanup_mark
    \/ Requests(MaxCacheTasks)
    \/ Dispatch
    \/ \E id \in TaskIds : ProcessTask(id)

SpecEvict == InitStorage /\ [][NextEvict]_vars

\* the eviction passes and manual cleanup requests
NextCleanup ==
    \/ NextStorage
    \/ \E aggressive \in BOOLEAN : trigger_cleanup(aggressive)

SpecCleanup == InitStorage /\ [][NextCleanup]_vars

\* the integrity sweep on a settled server whose files get damaged and whose
\* videos are streamed
NextIntegrity ==
    \/ safe_check_video_integrity
    \/ integrity_scan
    \/ integrity_mark
    \/ \E k \in Keys : corrupt_file(k)
    \/ \E k \in Keys : stream_video(k)

\* a settled server: rows READY, whose file may have vanished, or DELETED;
\* no video has been streamed yet
InitIntegrity ==
    /\ status \in [Keys -> {NoRow, READY, DELETED}]
    /\ \A k \in Keys : status[k] = NoRow <=> k \notin QueueKeys
    /\ file_size = [k \in Keys |-> IF status[k] = READY THEN 6 ELSE 0]
    /\ files \in [Keys -> {0} \cup FetchSizes]
    /\ \A k \in Keys : files[k] # 0 => files[k] = file_size[k]
    /\ file_ext = [k \in Keys |-> "mp4"]
    /\ last_accessed = [k \in Keys |-> 0]
    /\ access_count = [k \in Keys |-> 0]
    /\ created_at = [k \in Keys |-> IF k \in QueueKeys THEN k ELSE 0]
    /\ is_running = TRUE
    /\ EmptyQueueState
    /\ IdleStorage

SpecIntegrity == InitIntegrity /\ [][NextIntegrity]_vars

\* sweeps on a database whose statements may fail; every READY row starts with
\* its file, so a file can only vanish by a sweep's unlink
InitIntact ==
    /\ InitIntegrity
    /\ \A k \in Keys : files[k] = file_size[k]

NextSweepError ==
    \/ safe_check_video_integrity
    \/ integrity_scan
    \/ integrity_mark
    \/ integrity_mark_error
    \/ \E k \in Keys : corrupt_file(k)

SpecSweepError == InitIntact /\ [][NextSweepError]_vars

\* every way a READY row loses its artifact on a settled server: eviction, the
\* integrity sweep, and a request for a hash whose file is gone
NextCatalog ==
    \/ safe_check_video_integrity
    \/ integrity_scan
    \/ integrity_mark
    \/ \E k \in Keys : corrupt_file(k)
    \/ cleanup_old_videos
    \/ cleanup_scan
    \/ cleanup_mark
    \/ \E k \in Keys : lose_file(k)
    \/ Requests(MaxCacheTasks)

SpecCatalog == InitIntegrity /\ [][NextCatalog]_vars

\* the integrity sweeps next to eviction passes, with videos being streamed
NextMarked ==
    \/ NextIntegrity
    \/ cleanup_old_videos
    \/ cleanup_scan
    \/ cleanup_mark

SpecMarked == InitIntact /\ [][NextMarked]_vars

\* every caller of an eviction pass and of a sweep: the monitor's ticks and
\* tasks, direct calls of cleanup_old_videos, manual cleanup requests
NextGuards ==
    \/ NextCatalog
    \/ perform_monitoring_checks
    \/ safe_cleanup_old_videos
    \/ \E aggressive \in BOOLEAN : trigger_cleanup(aggressive)

SpecGuards == InitIntegrity /\ [][NextGuards]_vars

TypeOK ==
    /\ status \in [Keys -> VideoStatus \cup {NoRow}]
    /\ file_size \in [Keys -> {0} \cup Sizes]
    /\ files \in [Keys -> {0, Damaged} \cup Sizes]
    /\ file_ext \in [Keys -> DownloadExts]
    /\ is_running \in BOOLEAN

\* ------------------------------------------------------------- claims
\* tasks of a hash that are in the pending queue or being processed
TasksOf(k) == QueuedCount(k) + Cardinality(RunsOf(k))

\* C1: for each key at most one DownloadTask is in the pending queue or
\* active, at every reachable state.
AtMostOneTaskPerKey == \A k \in Keys : TasksOf(k) <= 1

\* C2: for each key at most one _process_task run is in progress at any
\* instant.
AtMostOneRunPerKey == \A k \in Keys : Cardinality(RunsOf(k)) <= 1

\* C3: in every reachable state a call add_task(k) returns False and changes
\* nothing exactly when a task for k is queued or active, and otherwise returns
\* True, appends one task for k at the tail and creates k's future.
AddTaskRejectsExactlyDuplicates ==
    \A k \in QueueKeys :
        LET q == add_task_fn(CurrentQueue, k) IN
        /\ ~q.added <=> (k \in QueuedHashes \/ k \in active_tasks)
        /\ ~q.added =>
              /\ q.queue = queue
              /\ q.task_futures = task_futures
        /\ q.added =>
              /\ Len(q.queue) = Len(queue) + 1
              /\ SubSeq(q.queue, 1, Len(queue)) = queue
              /\ q.queue[Len(q.queue)].video_hash = k
              /\ k \in DOMAIN q.task_futures

\* C4: the number of Fetcher invocations in progress never exceeds
\* max_concurrent.
FetchersWithinMaxConcurrent ==
    Cardinality({p \in procs : p.pc = "download"}) <= max_concurrent

\* C5: a run records FAILED only for a task that has failed the configured
\* number of times (retry_attempts), and the task is then neither queued nor
\* run again.
FailedAfterConfiguredAttempts ==
    [][\A p \in procs :
          (p.pc = "fail" /\ p \notin procs') =>
              /\ status'[p.task.video_hash] = FAILED
              /\ p.task.retry_count = retry_attempts
              /\ \A i \in 1..Len(queue') : queue'[i].id # p.task.id
              /\ \A r \in procs' : r.task.id # p.task.id]_vars

\* C6: the start of the queue resets every DOWNLOADING row to PENDING and
\* enqueues exactly one task per PENDING/DOWNLOADING row, N in all, before
\* anything is dispatched; READY, FAILED and DELETED rows are not enqueued and
\* keep their status.
RestoreEnqueuesPendingRows ==
    [][(~is_running /\ is_running') =>
          /\ Len(queue') = Cardinality(PendingRows)
          /\ total_restored' = Cardinality(PendingRows)
          /\ \A k \in PendingRows :
                /\ status'[k] = PENDING
                /\ Cardinality({i \in 1..Len(queue') : queue'[i].video_hash = k}) = 1
          /\ \A k \in Keys \ PendingRows :
                /\ status'[k] = status[k]
                /\ \A i \in 1..Len(queue') : queue'[i].video_hash # k
          /\ procs' = {}
          /\ active_tasks' = {}]_vars

\* a restart that restored two tasks and left a READY-free queue to dispatch
RestoredTwoTasks ==
    /\ is_running
    /\ total_restored = 2
    /\ Len(queue) = 2
    /\ procs = {}
    /\ \A k \in QueuedHashes : status[k] = PENDING

\* C7: under fair scheduling every task accepted by add_task ends with a
\* terminal status (READY or FAILED) recorded in the catalog by its own run.
\* Task objects are never handed out twice and a recorded outcome is never
\* rewritten, so this is: from some point on every accepted task has one.
AcceptedTaskReachesTerminalStatus ==
    <>[](\A id \in LiveIds : (id < next_id) => (outcome[id] \in {READY, FAILED}))

\* one accepted task ended FAILED and another READY
TasksEndedBothWays ==
    \E a, b \in LiveIds : outcome[a] = FAILED /\ outcome[b] = READY

\* the READY rows whose artifact is still on disk
Evictable == {k \in ReadyRows : files[k] # 0}

\* C8: when the cleanup started by the monitoring check runs with no other
\* cleanup in progress, it leaves the store at or below the target, or with
\* nothing left to evict.
MonitorCleanupReachesTarget ==
    [][(safe_cleanup_task /\ ~safe_cleanup_task' /\ ~cleanup_running) =>
          (AtTarget(total_size') \/ Evictable' = {})]_vars

\* recorded size of a snapshot row
SnapshotSize(h) ==
    LET j == CHOOSE j \in 1..Len(cleanup.videos) : cleanup.videos[j].hash = h
    IN cleanup.videos[j].file_size

\* C9: a finished eviction pass has evicted rows in ascending last-accessed
\* order up to the first point where used <= target: the store is at the
\* target (or nothing evictable is left), the last eviction was needed, and no
\* remaining candidate is older than an evicted row.
EvictionPassStopsAtTarget ==
    cleanup.pc = "done" =>
        /\ AtTarget(total_size) \/ Evictable = {}
        /\ cleanup.deleted_hashes # <<>> =>
              ~AtTarget(total_size +
                  SnapshotSize(cleanup.deleted_hashes[Len(cleanup.deleted_hashes)]))
        /\ \A i \in 1..Len(cleanup.deleted_hashes) : \A r \in Evictable :
              last_accessed[cleanup.deleted_hashes[i]] <= last_accessed[r]

\* C10: a step of an eviction pass never unlinks the file of a key that has a
\* task dispatched and not yet finished.
EvictionSparesActiveKeys ==
    [][\A k \in Keys :
          (/\ cleanup'.pc = "mark"
           /\ cleanup' # cleanup
           /\ cleanup'.videos[cleanup'.i].hash = k) =>
              (k \notin active_tasks /\ RunsOf(k) = {})]_vars

\* C11: the completion signal of a key stops being pending (resolved, cancelled
\* or discarded) only in a step in which a run of that key records its final
\* outcome, READY or FAILED.
SignalSettledByFinalOutcome ==
    [][\A k \in DOMAIN task_futures :
          (task_futures[k] = "pending" /\
           (k \notin DOMAIN task_futures' \/ task_futures'[k] # "pending")) =>
              \E p \in procs \ procs' :
                  /\ p.task.video_hash = k
                  /\ outcome'[p.task.id] \in {READY, FAILED}]_vars

\* C12: wait_for_task never raises to its caller: it returns True when the
\* task succeeded while the caller waited, and False when the timeout elapsed,
\* when the key had no completion signal, when the task ended FAILED and when
\* the queue was stopped.
WaitForTaskReturnsBoolean ==
    \A w \in waiters :
        w.state # "waiting" =>
            /\ wait_for_task_returns(w.state) \in {"True", "False"}
            /\ wait_for_task_returns(w.state) = "True" <=> w.state = "result"

\* C13: a request for a key that has a task in the pending queue enqueues no
\* further task and leaves the catalog row as it is, and the handler is in the
\* branch that reports the queue index of that task.
RepeatedRequestOnlyReportsPosition ==
    [][\A k \in QueueKeys :
          (k \in QueuedHashes /\ request_video(k)) =>
              /\ queue' = queue
              /\ status'[k] = status[k]
              /\ file_size'[k] = file_size[k]
              /\ status[k] = PENDING
              /\ get_queue_position(k) >= 0]_vars

\* C14: when two requests for the same new key have both been answered and no
\* other key has been requested, exactly one of them created the row, exactly
\* one of them enqueued a task, and the other was told the key is queued at
\* position 0.
RacingRequestsEnqueueOnce ==
    \A r1, r2 \in reqs :
        (/\ r1.rid # r2.rid
         /\ r1.video_hash = r2.video_hash
         /\ r1.pc = "done" /\ r2.pc = "done"
         /\ \A j \in Keys \ {r1.video_hash} : status[j] = NoRow) =>
            /\ r1.created # r2.created
            /\ r1.added # r2.added
            /\ ~r1.added => r1.position = 0

LostFileIsRefetched ==
    [][\A k \in QueueKeys :
          /\ files[k] = 0 => find_video_path(k) = None
          /\ (status[k] = READY /\ find_video_path(k) = None /\ request_video(k)) =>
                /\ status'[k] = PENDING
                /\ k \in task_cache'
                /\ \E i \in 1..Len(queue') : queue'[i].video_hash = k]_vars

\* a row that was READY when the server started (it is older than another READY
\* row, and the one task ever created is its own) lost its file and was
\* requested: the row is PENDING without a size and a task is queued
RefetchQueued ==
    \E k, j \in QueueKeys :
        /\ status[k] = PENDING /\ file_size[k] = 0 /\ files[k] = 0
        /\ status[j] = READY /\ created_at[k] < created_at[j]
        /\ next_id = 2
        /\ \E i \in 1..Len(queue) : queue[i].video_hash = k

\* C17: a sweep passes over no file that fails the check: each such file is
\* unlinked, its row is then marked DELETED, and when the sweep completes every
\* row it found damaged is DELETED with its file gone, whether or not the
\* video was ever streamed.
SweepDeletesDamaged ==
    [][integrity' # integrity =>
          /\ \A j \in 1..Len(integrity'.videos) :
                (j < integrity'.i /\ (integrity.pc = "scan" \/ j > integrity.i))
                    => files[integrity'.videos[j]] # Damaged
          /\ integrity'.pc = "mark" =>
                /\ files[integrity'.videos[integrity'.i]] = Damaged
                /\ files'[integrity'.videos[integrity'.i]] = 0
          /\ integrity.pc = "mark" =>
                status'[integrity.videos[integrity.i]] = DELETED
          /\ integrity'.pc = "done" =>
                \A j \in 1..Len(integrity'.damaged_files) :
                    /\ status'[integrity'.damaged_files[j]] = DELETED
                    /\ files'[integrity'.damaged_files[j]] = 0]_vars

\* a completed sweep deleted a damaged artifact that had been streamed
SweepDeletedStreamedVideo ==
    /\ integrity.pc = "done"
    /\ \E j \in 1..Len(integrity.damaged_files) :
          /\ last_accessed[integrity.damaged_files[j]] # 0
          /\ status[integrity.damaged_files[j]] = DELETED
          /\ files[integrity.damaged_files[j]] = 0

\* C18: no step removes a row of the catalog: a hash that has a row keeps it
\* (the catalog is a function of the hash, so there is one row per hash); the
\* row of an evicted artifact and the row of a damaged one become DELETED, and
\* a request that finds the file gone leaves the row in place.
CatalogRowsNeverRemoved ==
    [][\A k \in Keys :
          /\ status[k] # NoRow => status'[k] # NoRow
          /\ (cleanup.pc = "mark" /\ cleanup' # cleanup /\ cleanup.videos[cleanup.i].hash = k)
                => status'[k] = DELETED
          /\ (integrity.pc = "mark" /\ integrity' # integrity
                /\ integrity.videos[integrity.i] = k) => status'[k] = DELETED]_vars

\* one row was evicted and another failed the integrity sweep: both are still
\* in the catalog, DELETED
EvictedAndDamagedRowsKept ==
    \E a, b \in Keys :
        /\ a # b
        /\ \E j \in 1..Len(cleanup.deleted_hashes) : cleanup.deleted_hashes[j] = a
        /\ \E j \in 1..Len(integrity.damaged_files) : integrity.damaged_files[j] = b
        /\ status[a] = DELETED /\ status[b] = DELETED
        /\ files[a] = 0 /\ files[b] = 0

\* C19: create_video answers True and writes a PENDING row when the hash has no
\* row; when it has one, also for the second of two racing handlers, it answers
\* False and the row keeps its status, creation stamp, size and access stamp.
CreateVideoInsertsOnce ==
    [][\A r \in reqs : \A d \in reqs' \ reqs :
          (r.pc = "create" /\ d.rid = r.rid) =>
              LET k == r.video_hash IN
              IF status[k] = NoRow
              THEN /\ d.created
                   /\ status'[k] = PENDING
                   /\ created_at'[k] # 0
              ELSE /\ ~d.created
                   /\ Row(k)' = Row(k)]_vars

\* of two handlers that raced for a hash the first created the row, and the
\* second called create_video when the row had moved on: it got False
SecondCreateIgnored ==
    \E a, b \in reqs :
        /\ a.video_hash = b.video_hash
        /\ a.pc = "done" /\ a.created
        /\ b.pc = "done" /\ ~b.created
        /\ status[a.video_hash] \in {DOWNLOADING, READY, FAILED}

\* C20: a run that waits for the Fetcher is eventually ended, whether or not
\* the Fetcher returns: its task leaves the active set.
HungRunIsEnded ==
    \A id \in LiveIds :
        (\E p \in procs : p.task.id = id /\ p.pc = "download")
            ~> (\A p \in procs : p.task.id # id)

\* C21: once the server has shut down no completion signal is pending and no
\* caller waits, and from then on the dispatcher starts no run and the storage
\* monitor starts no sweep and no cleanup.
ShutdownEndsSignalsAndLoops ==
    [][shutdown' =>
          /\ \A k \in DOMAIN task_futures' : task_futures'[k] # "pending"
          /\ \A w \in waiters' : w.state # "waiting"
          /\ shutdown =>
                /\ ~Dispatch
                /\ integrity' = integrity
                /\ safe_cleanup_task' = safe_cleanup_task]_vars

\* C22: no manual cleanup request, aggressive or not, ends in an error.
TriggerCleanupNeverFails == cleanup_reply # "error"

\* C23: an eviction pass unlinks no intact file of a row whose access_count is
\* above the protection threshold, for any threshold below the largest count
\* the model tells apart.
EvictionSparesAccessedRows ==
    [][\A k \in Keys :
          (/\ cleanup' # cleanup
           /\ files[k] \notin {0, Damaged}
           /\ files'[k] = 0) => access_count[k] < MaxCount]_vars

\* C24: at most one call is inside an eviction pass and at most one inside an
\* integrity sweep, and _cleanup_running is set only while a pass executes.
PassesNeverOverlap ==
    /\ cleanup.executing <= 1
    /\ integrity.executing <= 1
    /\ cleanup.executing = 0 => ~cleanup_running

\* a pass and a sweep execute while the monitor's cleanup task waits to run and
\* a manual cleanup request has been answered
PassSweepAndMonitorTaskTogether ==
    /\ cleanup.pc = "mark" /\ cleanup.executing = 1
    /\ integrity.pc = "mark" /\ integrity.executing = 1
    /\ safe_cleanup_task
    /\ cleanup_reply = "error"

\* C25: get_queue_position gives the zero-based place of the key's task in the
\* pending queue, and None (-1) for a key whose task is active and for a key
\* that has no task.
QueuePositionIsPendingIndex ==
    \A k \in Keys :
        /\ k \in active_tasks => get_queue_position(k) = -1
        /\ TasksOf(k) = 0 => get_queue_position(k) = -1
        /\ (k \notin active_tasks /\ k \in QueuedHashes) =>
              /\ get_queue_position(k) \in 0..(Len(queue) - 1)
              /\ queue[get_queue_position(k) + 1].video_hash = k

\* C26: a request whose create_video failed enqueues no task, and a run whose
\* READY update failed leaves no artifact of its key on the disk.
CatalogFailureAbortsOperation ==
    [][/\ \A r \in reqs :
            request_create_error(r) => queue' = queue
       /\ \A p \in procs :
            RecordDownloadError(p) => files'[p.task.video_hash] = 0]_vars

\* C27: a pass over READY rows of which some were never accessed and others
\* were, with the store above the target, goes on to evict, and the first row
\* it evicts is the first never-accessed row that has a file.
NeverAccessedRowsEvictedFirst ==
    [][(/\ cleanup.pc = "scan"
        /\ cleanup' # cleanup
        /\ \E a, b \in ReadyRows : last_accessed[a] = 0 /\ last_accessed[b] # 0
        /\ ~AtTarget(total_size)
        /\ \E a \in ReadyRows : last_accessed[a] = 0 /\ files[a] # 0) =>
            /\ cleanup'.pc = "mark"
            /\ last_accessed[cleanup'.videos[cleanup'.i].hash] = 0]_vars

\* C28: a sweep unlinks a damaged file before it marks the row, and a row
\* whose file an earlier sweep unlinked without marking it is DELETED when the
\* next sweep that has it in its snapshot completes.
SweepRepairsUnmarkedRows ==
    [][/\ (integrity.pc = "mark" /\ integrity' # integrity) =>
            files[integrity.videos[integrity.i]] = 0
       /\ (integrity.pc # "done" /\ integrity'.pc = "done") =>
            \A j \in 1..Len(integrity'.videos) :
                (/\ \A d \in 1..Len(integrity'.damaged_files) :
                        integrity'.damaged_files[d] # integrity'.videos[j]
                 /\ files'[integrity'.videos[j]] = 0) =>
                    status'[integrity'.videos[j]] = DELETED]_vars

\* C29: the retry count of a key never decreases, also across a restart: a
\* task of the key after a step carries at least the retry count that a task
\* of the key carried before the step.
RetryCountNeverDecreases ==
    [][\A t \in Range(queue) \cup {p.task : p \in procs} :
         \A u \in Range(queue') \cup {p.task : p \in procs'} :
            u.video_hash = t.video_hash => u.retry_count >= t.retry_count]_vars

\* C30: no key has a READY row while a task of the key is in the active set.
ReadyKeysAreNotActive ==
    \A k \in Keys : status[k] = READY => k \notin active_tasks

\* C31: a step of an eviction pass or of an integrity sweep unlinks a file,
\* and goes on to mark its row DELETED, only when the row is READY at that
\* step; a row in any other status keeps its file.
PassesTouchOnlyReadyRows ==
    [][\A k \in Keys :
          ((cleanup' # cleanup \/ integrity' # integrity)
             /\ files[k] # 0 /\ files'[k] = 0) => status[k] = READY]_vars

\* C32: in every step in which a run sets the row of its key to READY, the
\* artifact file of the key is on disk.
ReadyIsSetWithFileOnDisk ==
    [][\A k \in Keys :
          (status[k] # READY /\ status'[k] = READY) =>
              (files[k] # 0 /\ files'[k] # 0)]_vars

\* C33: pending tasks leave the queue from the head only, one per step, into a
\* run; every task that stays keeps its place relative to the others; a task
\* that enters, new or returned from a failed attempt, enters behind all of
\* them; and start() enqueues the restored tasks in created_at order.
PendingServedFifo ==
    [][/\ \E d \in {0, 1} :
            /\ d <= Len(queue)
            /\ Len(queue') >= Len(queue) - d
            /\ \A i \in 1..(Len(queue) - d) : queue'[i] = queue[i + d]
            /\ d = 1 => \E p \in procs' \ procs : p.task = queue[1]
       /\ (~is_running /\ is_running') =>
            \A i, j \in 1..Len(queue') :
                i < j => created_at[queue'[i].video_hash]
                            < created_at[queue'[j].video_hash]]_vars

\* a task returned from a failed attempt waits behind a restored task that
\* has not been tried yet
RetriedTaskBehindPendingOne ==
    /\ Len(queue) = 2
    /\ queue[1].retry_count = 0
    /\ queue[2].retry_count = 1
    /\ queue[1].video_hash # queue[2].video_hash
    /\ created_at[queue[2].video_hash] < created_at[queue[1].video_hash]

\* C34: every key whose task waits in the pending queue has a row with status
\* PENDING; in particular a task re-enqueued after a failed attempt.
QueuedKeysArePending ==
    \A i \in 1..Len(queue) : status[queue[i].video_hash] = PENDING

\* C35: the step in which mark_video_deleted returns to an eviction pass or to
\* an integrity sweep leaves the row of its key DELETED with no file size, and
\* so outside the rows that count as used storage; the row's stamps and
\* access count, and every other row, are as before.
MarkDeletedClearsOneRow ==
    [][\A k \in Keys :
          (\/ /\ cleanup.pc = "mark" /\ cleanup' # cleanup
              /\ cleanup.videos[cleanup.i].hash = k
           \/ /\ integrity.pc = "mark" /\ integrity' # integrity
              /\ integrity.videos[integrity.i] = k) =>
              /\ status'[k] = DELETED
              /\ file_size'[k] = 0
              /\ last_accessed'[k] = last_accessed[k]
              /\ access_count'[k] = access_count[k]
              /\ created_at'[k] = created_at[k]
              /\ \A j \in Keys \ {k} :
                    /\ status'[j] = status[j]
                    /\ file_size'[j] = file_size[j]
                    /\ last_accessed'[j] = last_accessed[j]
                    /\ access_count'[j] = access_count[j]
              /\ SumOver(file_size',
                         {j \in Keys : status'[j] = READY /\ file_size'[j] # 0})
                   = SumOver(file_size,
                         {j \in Keys \ {k} : status[j] = READY /\ file_size[j] # 0})]_vars

\* a streamed row has been marked DELETED while another row is still READY
\* and counts as used storage
StreamedRowMarkedNextToReadyRow ==
    \E k, j \in Keys :
        /\ status[k] = DELETED /\ file_size[k] = 0
        /\ last_accessed[k] # 0 /\ access_count[k] # 0
        /\ status[j] = READY /\ file_size[j] # 0

\* C36: every key that has a task in the pending queue or in the active set
\* has an entry in _task_cache and a completion future.
QueuedAndActiveKeysAreIndexed ==
    \A k \in QueuedHashes \cup active_tasks :
        k \in task_cache /\ k \in DOMAIN task_futures

\* C37: a READY row whose artifact is on disk is located by find_video_path,
\* whatever extension the downloader gave the artifact.
ReadyArtifactIsFound ==
    \A k \in Keys :
        (status[k] = READY /\ files[k] # 0) => find_video_path(k) # None

\* C38: a request_video call for a key whose row is DOWNLOADING and whose
\* task is in the active set leaves the Catalog status and the queue as they
\* are.
RequestLeavesActiveDownloadAlone ==
    [][\A k \in QueueKeys :
          (status[k] = DOWNLOADING /\ k \in active_tasks /\ request_video(k)) =>
              (status' = status /\ queue' = queue)]_vars

\* C39: in the step in which a run's fetch has succeeded and its storage check
\* is made, with used storage above 90% of the quota, an eviction pass is
\* started before the row is set to READY.
StorageCheckStartsEviction ==
    [][\A p \in procs :
          (/\ p.pc = "download"
           /\ used_percent_x10 > 900
           /\ \E q \in procs' : q.task = p.task /\ q.pc = "update") =>
              cleanup'.executing > cleanup.executing]_vars

\* C40: the step in which a run's update_video_on_download has made the row
\* READY puts no task back into the queue and ends the run: the run does not
\* go on with a raised retry count towards FAILED.
CommittedRunDoesNotRetry ==
    [][\A p \in procs :
          (/\ p.pc = "update"
           /\ p \notin procs'
           /\ status[p.task.video_hash] # READY
           /\ status'[p.task.video_hash] = READY) =>
              /\ queue' = queue
              /\ \A q \in procs' : q.task.id # p.task.id]_vars

====
